---- MODULE Spec2Model ----
(***************************************************************************)
(* The dashboard script app.py as a state machine: one page render runs   *)
(* the script top to bottom (load_data behind st.cache_data, the          *)
(* allow-list filter, the two group-by sums, the two charts); the process *)
(* keeps the load_data cache between renders while the remote CSV files   *)
(* may change.                                                             *)
(***************************************************************************)
EXTENDS Integers, Sequences, FiniteSets, TLC

\* ------------------------------------------------------------------ bounds
MaxRows == 2      \* rows of a remote wide table
MaxCols == 3      \* date columns of a remote wide table
MaxCells == 4     \* rows x date columns of a remote wide table
MaxVal == 1       \* largest count in a cell
MaxRenders == 2   \* page renders in one process

\* ----------------------------------------------------------- data values
\* pandas' missing date (errors='coerce' turns an unparseable name into it)
NaT == 0
\* pandas' missing string cell (an empty Province/State field of the CSV)
NaN == "NaN"

\* Column names the remote files may carry after Lat and Long: two spellings
\* of 22 Jan 2020, 23 Jan 2020, and a name that is no date.
ColNames == {"1/22/20", "01/22/20", "1/23/20", "Admin2"}

\* (Province/State, Country/Region) pairs of the remote rows
Regions == { <<NaN, "US">>, <<NaN, "United Kingdom">>,
             <<"Bermuda", "United Kingdom">>, <<NaN, "France">> }

\* pd.to_datetime(name, errors='coerce') on one column name: the day of
\* 2020 it denotes, NaT when it denotes none.
ParseDate(name) ==
    CASE name = "1/22/20" -> 22
      [] name = "01/22/20" -> 22
      [] name = "1/23/20" -> 23
      [] OTHER -> NaT

IdVars == <<"Province/State", "Country/Region">>

Range(s) == { s[i] : i \in DOMAIN s }

\* ------------------------------------------------------- frame operations
\* A wide frame is [columns: sequence of distinct names, rows: sequence of
\* functions from the column names to cell values]; a long frame is a
\* sequence of rows.

\* DataFrame.drop(columns=names): the frame without these columns.
DropColumns(df, names) ==
    LET keep == SelectSeq(df.columns, LAMBDA c : c \notin names)
    IN  [ columns |-> keep,
          rows |-> [ i \in DOMAIN df.rows |->
                       [ c \in Range(keep) |-> df.rows[i][c] ] ] ]

\* drop raises KeyError when a named column is absent.
DropRaises(df, names) == ~ (names \subseteq Range(df.columns))

\* Mutant of Melt: the first value column is taken for an id column and
\* not melted.
MeltSkipsFirst(df, id_vars, var_name, value_name) ==
    LET all_vars == SelectSeq(df.columns, LAMBDA c : c \notin Range(id_vars))
        value_vars == IF all_vars = <<>> THEN all_vars ELSE Tail(all_vars)
        R == Len(df.rows)
    IN  [ k \in 1..(R * Len(value_vars)) |->
            LET j == ((k - 1) \div R) + 1
                i == ((k - 1) % R) + 1
            IN  [ c \in Range(id_vars) |-> df.rows[i][c] ]
                  @@ (var_name :> value_vars[j])
                  @@ (value_name :> df.rows[i][value_vars[j]]) ]

\* Mutant of Melt: the column names are paired with the values of the
\* columns in reverse order.
MeltMispairs(df, id_vars, var_name, value_name) ==
    LET value_vars == SelectSeq(df.columns, LAMBDA c : c \notin Range(id_vars))
        R == Len(df.rows)
        D == Len(value_vars)
    IN  [ k \in 1..(R * D) |->
            LET j == ((k - 1) \div R) + 1
                i == ((k - 1) % R) + 1
            IN  [ c \in Range(id_vars) |-> df.rows[i][c] ]
                  @@ (var_name :> value_vars[j])
                  @@ (value_name :> df.rows[i][value_vars[D + 1 - j]]) ]

\* DataFrame.melt(id_vars, var_name, value_name): one row per (row, value
\* column), column by column, rows in their order within each column.
Melt(df, id_vars, var_name, value_name) ==
    LET value_vars == SelectSeq(df.columns, LAMBDA c : c \notin Range(id_vars))
        R == Len(df.rows)
    IN  [ k \in 1..(R * Len(value_vars)) |->
            LET j == ((k - 1) \div R) + 1
                i == ((k - 1) % R) + 1
            IN  [ c \in Range(id_vars) |-> df.rows[i][c] ]
                  @@ (var_name :> value_vars[j])
                  @@ (value_name :> df.rows[i][value_vars[j]]) ]

\* df['Date'] = pd.to_datetime(df['Date'], errors='coerce')
ToDatetime(df) ==
    [ k \in DOMAIN df |-> [ df[k] EXCEPT !["Date"] = ParseDate(@) ] ]

\* Mutant of DropnaDate: no row is dropped.
DropnaDateKeepsAll(df) == df

\* df.dropna(subset=['Date'])
DropnaDate(df) == SelectSeq(df, LAMBDA r : r["Date"] # NaT)

\* lines 68-82 of load_data for one of the two frames
Reshape(df, value_name) ==
    DropnaDate(ToDatetime(Melt(DropColumns(df, {"Lat", "Long"}),
                               IdVars, "Date", value_name)))

countries_to_plot == <<"US", "India", "United Kingdom">>

\* Mutant of FilterCountries: the United Kingdom is looked up as "UK".
FilterCountriesUK(df) ==
    SelectSeq(df, LAMBDA r : r["Country/Region"] \in {"US", "India", "UK"})

\* Mutant of FilterCountries: the first matching row is sliced off.
FilterCountriesSkipsFirst(df) ==
    LET f == SelectSeq(df, LAMBDA r : r["Country/Region"] \in Range(countries_to_plot))
    IN  IF f = <<>> THEN f ELSE Tail(f)

\* Mutant of FilterCountries: the mask is negated.
FilterCountriesInverted(df) ==
    SelectSeq(df, LAMBDA r : r["Country/Region"] \notin Range(countries_to_plot))

\* df[df['Country/Region'].isin(countries_to_plot)]
FilterCountries(df) ==
    SelectSeq(df, LAMBDA r : r["Country/Region"] \in Range(countries_to_plot))

\* Series.sum() of column col of df
RECURSIVE SumCol(_, _)
SumCol(df, col) ==
    IF df = <<>> THEN 0 ELSE Head(df)[col] + SumCol(Tail(df), col)

\* Country names in the order groupby sorts them (string order).
CountryOrder == <<"France", "India", "US", "United Kingdom">>

CountryRank(c) == CHOOSE i \in DOMAIN CountryOrder : CountryOrder[i] = c

\* The order groupby sorts its keys in: by each key column in turn.
KeyLess(by, a, b) ==
    \E n \in DOMAIN by :
        /\ \A m \in 1..(n - 1) : a[by[m]] = b[by[m]]
        /\ IF by[n] = "Date" THEN a[by[n]] < b[by[n]]
           ELSE CountryRank(a[by[n]]) < CountryRank(b[by[n]])

RECURSIVE SortKeys(_, _)
SortKeys(by, keys) ==
    IF keys = {} THEN <<>>
    ELSE LET least == CHOOSE a \in keys : \A b \in keys \ {a} : KeyLess(by, a, b)
         IN  <<least>> \o SortKeys(by, keys \ {least})

\* Mutant of GroupBySum: rows with a missing Province/State are left out of
\* the sums.
GroupBySumDropsNaN(df, by, col) ==
    LET KeyOf(r) == [ c \in Range(by) |-> r[c] ]
        keys == SortKeys(by, { KeyOf(df[k]) : k \in DOMAIN df })
    IN  [ n \in DOMAIN keys |->
            keys[n] @@ (col :> SumCol(SelectSeq(df, LAMBDA r :
                                         KeyOf(r) = keys[n] /\ r["Province/State"] # NaN),
                                     col)) ]

\* df.groupby(by)[col].sum().reset_index(): one row per key, keys sorted.
GroupBySum(df, by, col) ==
    LET KeyOf(r) == [ c \in Range(by) |-> r[c] ]
        keys == SortKeys(by, { KeyOf(df[k]) : k \in DOMAIN df })
    IN  [ n \in DOMAIN keys |->
            keys[n] @@ (col :> SumCol(SelectSeq(df, LAMBDA r : KeyOf(r) = keys[n]),
                                     col)) ]

\* ------------------------------------------------------------ the inputs
Headers(n) ==
    { h \in [1..n -> ColNames] : \A i, j \in 1..n : i # j => h[i] # h[j] }

WideRow(region, header, vals) ==
    ("Province/State" :> region[1]) @@ ("Country/Region" :> region[2])
      @@ ("Lat" :> 0) @@ ("Long" :> 0)
      @@ [ c \in Range(header) |->
             vals[CHOOSE j \in DOMAIN header : header[j] = c] ]

\* The well-formed remote file with date columns h, whose i-th row is of
\* region reg[i] with the cells vals[i].
WideTable(h, reg, vals) ==
    [ columns |-> IdVars \o <<"Lat", "Long">> \o h,
      rows |-> [ i \in DOMAIN reg |-> WideRow(reg[i], h, vals[i]) ] ]

\* (rows, date columns) of the bounded remote files
Shapes ==
    { s \in (0..MaxRows) \X (0..MaxCols) : s[1] * s[2] <= MaxCells }

\* A remote file without the Lat column.
NoLat ==
    [ columns |-> IdVars \o <<"Long", "1/22/20">>,
      rows |-> << ("Province/State" :> NaN) @@ ("Country/Region" :> "US")
                    @@ ("Long" :> 0) @@ ("1/22/20" :> 1) >> ]

Plain(region, v1, v2) ==
    [ columns |-> IdVars \o <<"Lat", "Long", "1/22/20", "1/23/20">>,
      rows |-> << WideRow(region, <<"1/22/20", "1/23/20">>, <<v1, v2>>) >> ]

\* Successive contents of the two remote files.
Snapshots ==
    { [ cases |-> Plain(<<NaN, "US">>, 0, 1), deaths |-> Plain(<<NaN, "US">>, 0, 0) ],
      [ cases |-> Plain(<<NaN, "US">>, 1, 1), deaths |-> Plain(<<NaN, "US">>, 0, 1) ],
      [ cases |-> Plain(<<NaN, "France">>, 1, 1), deaths |-> NoLat ] }

\* The fixed companion files of the data checks.
FixedCases == Plain(<<NaN, "US">>, 1, 1)
FixedDeaths == Plain(<<NaN, "US">>, 0, 1)

\* ------------------------------------------------------------- the state
VARIABLES
    remote,             \* the two remote CSV files, as they are now
    cache,              \* st.cache_data's entries for load_data: none or one
    pc,                 \* the script's position in this render
    fault,              \* the exception that ended this render, "" if none
    fetchlog,           \* the read_csv calls of this render, in order
    ld_cases,           \* load_data's local df_cases after read_csv
    ld_deaths,          \* load_data's local df_deaths after read_csv
    bound,              \* the script's module-level names bound so far
    df_cases, df_deaths,
    df_cases_filtered, df_deaths_filtered,
    df_cases_grouped, df_deaths_latest,
    charts,             \* the charts st.altair_chart has put on the page
    renders             \* page renders started in this process

vars == << remote, cache, pc, fault, fetchlog, ld_cases, ld_deaths, bound,
           df_cases, df_deaths, df_cases_filtered, df_deaths_filtered,
           df_cases_grouped, df_deaths_latest, charts, renders >>

frames == << df_cases, df_deaths, df_cases_filtered, df_deaths_filtered,
             df_cases_grouped, df_deaths_latest >>

NoFrame == [ columns |-> <<>>, rows |-> <<>> ]

Fresh ==
    /\ pc = "load_data"
    /\ fault = ""
    /\ fetchlog = <<>>
    /\ ld_cases = NoFrame
    /\ ld_deaths = NoFrame
    /\ bound = {}
    /\ df_cases = <<>>
    /\ df_deaths = <<>>
    /\ df_cases_filtered = <<>>
    /\ df_deaths_filtered = <<>>
    /\ df_cases_grouped = <<>>
    /\ df_deaths_latest = <<>>
    /\ charts = <<>>

Init ==
    /\ remote \in Snapshots
    /\ cache = <<>>
    /\ renders = 1
    /\ Fresh

\* One of the two files ranges over all bounded tables, and the file without
\* Lat, while the other is the fixed one.
InitData ==
    /\ \E side \in {"cases", "deaths"} :
         \/ \E s \in Shapes : \E h \in Headers(s[2]) :
              \E reg \in [1..s[1] -> Regions] :
                \E vals \in [1..s[1] -> [1..s[2] -> 0..MaxVal]] :
                   remote = IF side = "cases"
                            THEN [ cases |-> WideTable(h, reg, vals), deaths |-> FixedDeaths ]
                            ELSE [ cases |-> FixedCases, deaths |-> WideTable(h, reg, vals) ]
         \/ remote = IF side = "cases"
                     THEN [ cases |-> NoLat, deaths |-> FixedDeaths ]
                     ELSE [ cases |-> FixedCases, deaths |-> NoLat ]
    /\ cache = <<>>
    /\ renders = 1
    /\ Fresh

\* ------------------------------------------------------------ the script
\* Mutant of CacheHit: the stored result is ignored and load_data's body runs.
CacheHitRefetches ==
    /\ pc = "load_data"
    /\ cache # <<>>
    /\ pc' = "read_cases"
    /\ UNCHANGED << remote, cache, fault, fetchlog, ld_cases, ld_deaths, bound,
                    frames, charts, renders >>

\* line 87 with an entry in the cache: st.cache_data returns the stored
\* result and load_data's body does not run.
CacheHit ==
    /\ pc = "load_data"
    /\ cache # <<>>
    /\ df_cases' = cache[1].cases
    /\ df_deaths' = cache[1].deaths
    /\ bound' = bound \cup {"df_cases", "df_deaths"}
    /\ pc' = "filter"
    /\ UNCHANGED << remote, cache, fault, fetchlog, ld_cases, ld_deaths,
                    df_cases_filtered, df_deaths_filtered,
                    df_cases_grouped, df_deaths_latest, charts, renders >>

\* line 87 with an empty cache: load_data's body runs.
CacheMiss ==
    /\ pc = "load_data"
    /\ cache = <<>>
    /\ pc' = "read_cases"
    /\ UNCHANGED << remote, cache, fault, fetchlog, ld_cases, ld_deaths, bound,
                    frames, charts, renders >>

\* line 65: pd.read_csv(url_cases) returns the file or raises.
ReadCases ==
    /\ pc = "read_cases"
    /\ \/ /\ ld_cases' = remote.cases
          /\ fetchlog' = Append(fetchlog, [url |-> "cases", ok |-> TRUE])
          /\ pc' = "read_deaths"
          /\ UNCHANGED fault
       \/ /\ fetchlog' = Append(fetchlog, [url |-> "cases", ok |-> FALSE])
          /\ pc' = "fault"
          /\ fault' = "URLError"
          /\ UNCHANGED ld_cases
    /\ UNCHANGED << remote, cache, ld_deaths, bound, frames, charts, renders >>

\* Mutant of ReadDeaths: a failed read is tried again.
ReadDeathsRetries ==
    /\ pc = "read_deaths"
    /\ \/ /\ ld_deaths' = remote.deaths
          /\ fetchlog' = Append(fetchlog, [url |-> "deaths", ok |-> TRUE])
          /\ pc' = "reshape"
          /\ UNCHANGED << fault, ld_cases >>
       \/ /\ Len(fetchlog) < 3
          /\ fetchlog' = Append(fetchlog, [url |-> "deaths", ok |-> FALSE])
          /\ pc' = "read_deaths"
          /\ UNCHANGED << fault, ld_cases, ld_deaths >>
    /\ UNCHANGED << remote, cache, bound, frames, charts, renders >>

\* line 66: pd.read_csv(url_deaths) returns the file or raises.
ReadDeaths ==
    /\ pc = "read_deaths"
    /\ \/ /\ ld_deaths' = remote.deaths
          /\ fetchlog' = Append(fetchlog, [url |-> "deaths", ok |-> TRUE])
          /\ pc' = "reshape"
          /\ UNCHANGED << fault, ld_cases >>
       \/ /\ fetchlog' = Append(fetchlog, [url |-> "deaths", ok |-> FALSE])
          /\ pc' = "fault"
          /\ fault' = "URLError"
          /\ ld_cases' = NoFrame
          /\ UNCHANGED ld_deaths
    /\ UNCHANGED << remote, cache, bound, frames, charts, renders >>

\* lines 68-84 and the assignment of line 87: drop, melt, to_datetime,
\* dropna on both frames; the result is stored in the cache and bound.
ReshapeBoth ==
    /\ pc = "reshape"
    /\ ld_cases' = NoFrame
    /\ ld_deaths' = NoFrame
    /\ \/ /\ DropRaises(ld_cases, {"Lat", "Long"}) \/ DropRaises(ld_deaths, {"Lat", "Long"})
          /\ pc' = "fault"
          /\ fault' = "KeyError"
          /\ UNCHANGED << cache, bound, df_cases, df_deaths >>
       \/ /\ ~ DropRaises(ld_cases, {"Lat", "Long"})
          /\ ~ DropRaises(ld_deaths, {"Lat", "Long"})
          /\ df_cases' = Reshape(ld_cases, "Cases")
          /\ df_deaths' = Reshape(ld_deaths, "Deaths")
          /\ cache' = << [ cases |-> df_cases', deaths |-> df_deaths' ] >>
          /\ bound' = bound \cup {"df_cases", "df_deaths"}
          /\ pc' = "filter"
          /\ UNCHANGED fault
    /\ UNCHANGED << remote, fetchlog, df_cases_filtered, df_deaths_filtered,
                    df_cases_grouped, df_deaths_latest, charts, renders >>

\* lines 90-92
Filter ==
    /\ pc = "filter"
    /\ df_cases_filtered' = FilterCountries(df_cases)
    /\ df_deaths_filtered' = FilterCountries(df_deaths)
    /\ bound' = bound \cup {"df_cases_filtered", "df_deaths_filtered"}
    /\ pc' = "group_cases"
    /\ UNCHANGED << remote, cache, fault, fetchlog, ld_cases, ld_deaths,
                    df_cases, df_deaths, df_cases_grouped, df_deaths_latest,
                    charts, renders >>

\* line 98
GroupCases ==
    /\ pc = "group_cases"
    /\ df_cases_grouped' =
           GroupBySum(df_cases_filtered, <<"Date", "Country/Region">>, "Cases")
    /\ bound' = bound \cup {"df_cases_grouped"}
    /\ pc' = "chart_cases"
    /\ UNCHANGED << remote, cache, fault, fetchlog, ld_cases, ld_deaths,
                    df_cases, df_deaths, df_cases_filtered, df_deaths_filtered,
                    df_deaths_latest, charts, renders >>

\* lines 101-111
ChartCases ==
    /\ pc = "chart_cases"
    /\ charts' = Append(charts, [mark |-> "line", data |-> df_cases_grouped])
    /\ pc' = "group_deaths"
    /\ UNCHANGED << remote, cache, fault, fetchlog, ld_cases, ld_deaths, bound,
                    frames, renders >>

\* line 117
GroupDeaths ==
    /\ pc = "group_deaths"
    /\ df_deaths_latest' =
           GroupBySum(df_deaths_filtered, <<"Country/Region">>, "Deaths")
    /\ bound' = bound \cup {"df_deaths_latest"}
    /\ pc' = "chart_deaths"
    /\ UNCHANGED << remote, cache, fault, fetchlog, ld_cases, ld_deaths,
                    df_cases, df_deaths, df_cases_filtered, df_deaths_filtered,
                    df_cases_grouped, charts, renders >>

\* lines 120-128
ChartDeaths ==
    /\ pc = "chart_deaths"
    /\ charts' = Append(charts, [mark |-> "bar", data |-> df_deaths_latest])
    /\ pc' = "done"
    /\ UNCHANGED << remote, cache, fault, fetchlog, ld_cases, ld_deaths, bound,
                    frames, renders >>

\* The next page render: the script starts again in a fresh namespace and
\* on an empty page; the process keeps the cache.
Rerun ==
    /\ pc \in {"done", "fault"}
    /\ renders < MaxRenders
    /\ renders' = renders + 1
    /\ pc' = "load_data"
    /\ fault' = ""
    /\ fetchlog' = <<>>
    /\ ld_cases' = NoFrame
    /\ ld_deaths' = NoFrame
    /\ bound' = {}
    /\ df_cases' = <<>>
    /\ df_deaths' = <<>>
    /\ df_cases_filtered' = <<>>
    /\ df_deaths_filtered' = <<>>
    /\ df_cases_grouped' = <<>>
    /\ df_deaths_latest' = <<>>
    /\ charts' = <<>>
    /\ UNCHANGED << remote, cache >>

\* The publisher replaces the remote files.
RemoteChange ==
    /\ remote' \in Snapshots \ {remote}
    /\ UNCHANGED << cache, pc, fault, fetchlog, ld_cases, ld_deaths, bound,
                    frames, charts, renders >>

Script ==
    \/ CacheMiss
    \/ ReadCases
    \/ ReadDeaths
    \/ ReshapeBoth
    \/ Filter
    \/ GroupCases
    \/ ChartCases
    \/ GroupDeaths
    \/ ChartDeaths

Next == Script \/ CacheHit \/ Rerun \/ RemoteChange

\* One process over several renders, the remote files changing meanwhile.
Spec == Init /\ [][Next]_vars

\* One render on an empty cache, over all bounded remote files.
SpecData == InitData /\ [][Script]_vars

\* ------------------------------------------------- vocabulary of the claims
AllowList == {"US", "India", "United Kingdom"}

\* How many rows of df equal x
Count(df, x) == Cardinality({ k \in DOMAIN df : df[k] = x })

\* The sum of column col over the rows of df whose index is in idx
RECURSIVE SumAt(_, _, _)
SumAt(df, col, idx) ==
    IF idx = {} THEN 0
    ELSE LET k == CHOOSE k \in idx : TRUE
         IN  df[k][col] + SumAt(df, col, idx \ {k})

\* The date columns of a wide table: all but the two id columns, Lat and Long
DateColumns(t) ==
    Range(t.columns) \ {"Province/State", "Country/Region", "Lat", "Long"}

Parses(c) == ParseDate(c) # NaT

\* The cells (row, date column) of a wide table whose column name parses
ParsedCells(t) ==
    { cell \in (DOMAIN t.rows) \X DateColumns(t) : Parses(cell[2]) }

\* The long row a wide cell stands for
LongRow(t, cell, value_name) ==
    ("Province/State" :> t.rows[cell[1]]["Province/State"])
      @@ ("Country/Region" :> t.rows[cell[1]]["Country/Region"])
      @@ ("Date" :> ParseDate(cell[2]))
      @@ (value_name :> t.rows[cell[1]][cell[2]])

\* df is the long form of t: as many rows as t has rows times parseable date
\* columns, and every long row as often as there are cells that stand for it.
IsLongFormOf(df, t, value_name) ==
    /\ Len(df) = Len(t.rows) * Cardinality({ c \in DateColumns(t) : Parses(c) })
    /\ \A cell \in ParsedCells(t) :
         Count(df, LongRow(t, cell, value_name)) =
           Cardinality({ other \in ParsedCells(t) :
                           LongRow(t, other, value_name) = LongRow(t, cell, value_name) })

\* C1: the long tables load_data returns have one row per (wide row,
\* parseable date column): R x (parseable date columns) rows, each wide cell
\* with a parseable date appearing as exactly one long row (sub-region,
\* country, date, value).
C1_ReshapeIsExact ==
    "df_cases" \in bound =>
        /\ IsLongFormOf(df_cases, remote.cases, "Cases")
        /\ IsLongFormOf(df_deaths, remote.deaths, "Deaths")

C1_Witness ==
    /\ "df_cases" \in bound
    /\ Len(remote.cases.rows) = 2
    /\ Cardinality(DateColumns(remote.cases)) = 2
    /\ \E c \in DateColumns(remote.cases) : ~ Parses(c)
    /\ Len(df_cases) = 2
    /\ df_cases[1] # df_cases[2]

\* f is df restricted to the allow-list: only allowed countries in f, and
\* every allowed row of df in f as often as in df.
IsAllowedPartOf(f, df) ==
    /\ \A k \in DOMAIN f : f[k]["Country/Region"] \in AllowList
    /\ \A k \in DOMAIN df :
         df[k]["Country/Region"] \in AllowList => Count(f, df[k]) = Count(df, df[k])

\* C2: the filter keeps exactly the rows whose country is US, India or
\* United Kingdom, unchanged.
C2_FilterKeepsAllowList ==
    "df_cases_filtered" \in bound =>
        /\ IsAllowedPartOf(df_cases_filtered, df_cases)
        /\ IsAllowedPartOf(df_deaths_filtered, df_deaths)

C2_Witness ==
    /\ "df_cases_filtered" \in bound
    /\ \E k \in DOMAIN df_cases : df_cases[k]["Country/Region"] = "France"
    /\ \E k \in DOMAIN df_cases : df_cases[k]["Country/Region"] = "United Kingdom"
    /\ df_cases_filtered # <<>>
    /\ Len(df_cases_filtered) < Len(df_cases)

\* g has exactly one row per key (the columns by) of f, carrying the sum of
\* col over the rows of f with that key.
IsGroupedSumOf(g, f, by, col) ==
    LET Same(a, b) == \A c \in by : a[c] = b[c]
    IN  /\ \A k \in DOMAIN f :
             Cardinality({ n \in DOMAIN g : Same(g[n], f[k]) }) = 1
        /\ \A n \in DOMAIN g :
             /\ \E k \in DOMAIN f : Same(g[n], f[k])
             /\ g[n][col] = SumAt(f, col, { k \in DOMAIN f : Same(g[n], f[k]) })

C4_UnparseableDatesDropped ==
    /\ pc = "fault" =>
         \/ fault = "URLError" /\ ~ fetchlog[Len(fetchlog)].ok
         \/ /\ fault = "KeyError"
            /\ \/ ~ ({"Lat", "Long"} \subseteq Range(remote.cases.columns))
               \/ ~ ({"Lat", "Long"} \subseteq Range(remote.deaths.columns))
    /\ "df_cases" \in bound =>
         /\ \A k \in DOMAIN df_cases :
              /\ df_cases[k]["Date"] \in { ParseDate(c) : c \in ColNames } \ {NaT}
              /\ df_cases[k]["Country/Region"] \in { r[2] : r \in Regions }
         /\ \A k \in DOMAIN df_deaths :
              /\ df_deaths[k]["Date"] \in { ParseDate(c) : c \in ColNames } \ {NaT}
              /\ df_deaths[k]["Country/Region"] \in { r[2] : r \in Regions }

C4_Witness ==
    /\ "df_deaths" \in bound
    /\ \E c \in DateColumns(remote.deaths) : ~ Parses(c)
    /\ \E c \in DateColumns(remote.deaths) : Parses(c)
    /\ Len(remote.deaths.rows) = 2
    /\ Len(df_deaths) = 2

\* The latest date among the rows of df
LatestDate(df) ==
    CHOOSE d \in { df[k]["Date"] : k \in DOMAIN df } :
        \A k \in DOMAIN df : df[k]["Date"] <= d

\* C5: the Deaths value the bar chart shows for a country is the country's
\* cumulative death count at the latest date of the deaths table, summed
\* over the country's sub-regions.
C5_BarShowsLatestDeaths ==
    \A n \in DOMAIN charts :
        charts[n].mark = "bar" =>
            \A m \in DOMAIN charts[n].data :
                charts[n].data[m]["Deaths"] =
                    SumAt(df_deaths_filtered, "Deaths",
                          { k \in DOMAIN df_deaths_filtered :
                              /\ df_deaths_filtered[k]["Country/Region"] =
                                     charts[n].data[m]["Country/Region"]
                              /\ df_deaths_filtered[k]["Date"] = LatestDate(df_deaths) })

\* Every region's values do not decrease from an earlier to a later (or the
\* same) date.
MonotoneInput(t) ==
    \A i \in DOMAIN t.rows : \A c1, c2 \in DateColumns(t) :
        (Parses(c1) /\ Parses(c2) /\ ParseDate(c1) <= ParseDate(c2))
            => t.rows[i][c1] <= t.rows[i][c2]

\* No two date columns denote the same date.
DistinctDates(t) ==
    \A c1, c2 \in DateColumns(t) :
        (Parses(c1) /\ Parses(c2) /\ c1 # c2) => ParseDate(c1) # ParseDate(c2)

\* The sums are non-negative and, per country, do not decrease with the date.
MonotoneSums(g) ==
    /\ \A n \in DOMAIN g : g[n]["Cases"] >= 0
    /\ \A m, n \in DOMAIN g :
         (/\ g[m]["Country/Region"] = g[n]["Country/Region"]
          /\ g[m]["Date"] <= g[n]["Date"]) => g[m]["Cases"] <= g[n]["Cases"]

C7_FilterIdempotent ==
    "df_cases_filtered" \in bound =>
        /\ FilterCountries(df_cases_filtered) = df_cases_filtered
        /\ FilterCountries(df_deaths_filtered) = df_deaths_filtered

C7_Witness ==
    /\ "df_deaths_filtered" \in bound
    /\ Len(df_deaths) = 2
    /\ Len(df_deaths_filtered) = 1
    /\ df_deaths[1]["Country/Region"] = "France"

\* C8: a failed fetch ends the render in an unhandled fault: it is the last
\* fetch of the render, no file is fetched twice in a render, nothing is
\* bound, filtered, aggregated or charted.
C8_FetchFailureEndsRun ==
    /\ \A j, k \in DOMAIN fetchlog : j # k => fetchlog[j].url # fetchlog[k].url
    /\ \A k \in DOMAIN fetchlog :
         ~ fetchlog[k].ok =>
             /\ k = Len(fetchlog)
             /\ pc = "fault"
             /\ fault = "URLError"
             /\ bound = {}
             /\ charts = <<>>
             /\ \A i \in DOMAIN frames : frames[i] = <<>>

C8_Witness ==
    /\ pc = "fault"
    /\ Len(fetchlog) = 2
    /\ fetchlog[1].ok
    /\ ~ fetchlog[2].ok
    /\ charts = <<>>

\* C9: once load_data has completed, no later step of any render fetches
\* again or changes the stored result, and every render that has loaded
\* holds the stored tables, whatever the remote files have become.
C9_CacheNeverRefreshed ==
    [][ cache # <<>> =>
          /\ cache' = cache
          /\ Len(fetchlog') <= Len(fetchlog)
          /\ "df_cases" \in bound' =>
                 /\ df_cases' = cache[1].cases
                 /\ df_deaths' = cache[1].deaths ]_vars

C9_Witness ==
    /\ renders = 2
    /\ pc = "done"
    /\ fetchlog = <<>>
    /\ ~ DropRaises(remote.cases, {"Lat", "Long"})
    /\ df_cases = cache[1].cases
    /\ df_cases # Reshape(remote.cases, "Cases")

\* C10: when no loaded row has an allow-list country, the filtered and the
\* aggregated tables are empty, and the filter/aggregate stage does not
\* fault: a fault is raised inside load_data only.
C10_EmptyMatch ==
    /\ pc = "fault" => bound = {}
    /\ ("df_cases_filtered" \in bound
          /\ \A k \in DOMAIN df_cases : df_cases[k]["Country/Region"] \notin AllowList)
         => /\ df_cases_filtered = <<>>
            /\ df_cases_grouped = <<>>
            /\ \A n \in DOMAIN charts : charts[n].mark = "line" => charts[n].data = <<>>
    /\ ("df_deaths_filtered" \in bound
          /\ \A k \in DOMAIN df_deaths : df_deaths[k]["Country/Region"] \notin AllowList)
         => /\ df_deaths_filtered = <<>>
            /\ df_deaths_latest = <<>>
            /\ \A n \in DOMAIN charts : charts[n].mark = "bar" => charts[n].data = <<>>

C10_Witness ==
    /\ pc = "done"
    /\ df_deaths # <<>>
    /\ \A k \in DOMAIN df_deaths : df_deaths[k]["Country/Region"] = "France"
    /\ df_deaths_latest = <<>>
    /\ Len(charts) = 2
    /\ charts[2].data = <<>>

====
